---------------------------- MODULE Spec2Model ----------------------------
(***************************************************************************)
(* Model of the PostNL integration (custom_components/postnl):             *)
(*   - shipment reconciliation  (coordinator.py, transform_shipment)       *)
(*   - the polling cycle        (coordinator.py, _async_update_data)       *)
(*   - the two aggregate sensors (sensor.py, PostNLDelivery)               *)
(*   - config-entry setup       (__init__.py, async_setup_entry)           *)
(*   - the options flow         (options_flow.py, async_step_init)         *)
(*                                                                         *)
(* Python dictionaries are modelled by records with a fixed schema: a leaf *)
(* value is a string, ABSENT stands for a key that is not in the           *)
(* dictionary and None for Python's None.  A nested value carries a tag t: *)
(* "absent" (no key), "null" (None), "str" (a non-mapping) or "dict".      *)
(***************************************************************************)
EXTENDS Integers, Sequences, FiniteSets, TLC

VARIABLES
    \* ---- one call of transform_shipment (SpecTransform)
    tShipment,          \* the shipment argument
    tDetails,           \* what jouw_api.track_and_trace would answer
    tOutcome,           \* the call's outcome: a Package or a raised exception
    tLookups,           \* number of track_and_trace invocations made
    \* ---- polling cycle and sensors (Spec)
    pc,                 \* position of the refresh coroutine
    first,              \* the running refresh is async_config_entry_first_refresh
    coordinator,        \* a PostNLCoordinator exists (sensor.py:22)
    userinfo,           \* hass.data[DOMAIN][entry_id]['userinfo']
    shipments,          \* local `shipments` of _async_update_data
    cycleData,          \* local `data` of _async_update_data
    role,               \* which gather is running: "receiver" or "sender"
    pending,            \* indices of the gather's tasks not yet finished
    results,            \* results of the gather's finished tasks, by index
    data,               \* coordinator.data, the published data
    last_update_success,\* coordinator.last_update_success
    last_exception,     \* what the last failed refresh raised
    sensors,            \* the two PostNLDelivery entities
    api,                \* how the remote call of the last step ended
    \* ---- setup and options (SpecSetup)
    options,            \* config_entry.options
    flow,               \* the options flow: no flow, or the form being shown
    entryState,         \* the config entry's state in the host
    hassData,           \* hass.data[DOMAIN][entry_id]
    forwarded,          \* platforms were forwarded for setup
    setupCause,         \* the failed call's outcome in the last async_setup_entry
    setupRaised,        \* what the last async_setup_entry raised
    reauth,             \* a reauth flow was started
    polling             \* the coordinator built by the sensor platform

tvars == <<tShipment, tDetails, tOutcome, tLookups>>
pvars == <<pc, first, coordinator, userinfo, shipments, cycleData, role, pending,
           results, data, last_update_success, last_exception, sensors, api>>
svars == <<options, flow, entryState, hassData, forwarded, setupCause,
           setupRaised, reauth, polling>>
vars == <<tvars, pvars, svars>>

ABSENT == "ABSENT"
None == "None"

\* dict.get(key, None) on a leaf
Get(v) == IF v = ABSENT THEN None ELSE v

-----------------------------------------------------------------------------
(* Shipments and track-and-trace responses                                 *)

Keys == {"k1", "k2", "k3"}
WindowFrom == {ABSENT, None, "f1"}
WindowTo == {ABSENT, None, "t1"}

ShipmentRecords ==
    [key : Keys, barcode : {"3S1"}, delivered : BOOLEAN,
     deliveryWindowFrom : WindowFrom, deliveryWindowTo : WindowTo]

StatusPhases ==
    {[t |-> "absent"], [t |-> "null"], [t |-> "str"]}
    \cup [t : {"dict"}, message : {ABSENT, None, "m1"}]

TimeWindows ==
    {[t |-> "absent"], [t |-> "null"]}
    \cup [t : {"dict"}, startDateTime : {ABSENT, "s1"}, endDateTime : {ABSENT, "e1"}]

RouteInformations ==
    {[t |-> "absent"], [t |-> "null"]}
    \cup [t : {"dict"}, plannedDeliveryTime : {ABSENT, "p1"},
          plannedDeliveryTimeWindow : TimeWindows,
          expectedDeliveryTime : {ABSENT, "x1"}]

\* `other` : the colli carries keys besides statusPhase and routeInformation
Collis ==
    [t : {"dict"}, statusPhase : StatusPhases,
     routeInformation : RouteInformations, other : BOOLEAN]

NoColli == [t |-> "none"]

\* "RequestException": the call raises; "none": an empty or None response;
\* "nocolli": a response without the 'colli' key; "miss": 'colli' holds no
\* entry for the barcode; "hit": 'colli' maps the barcode to a colli.
Details ==
    {[t |-> "RequestException"], [t |-> "none"], [t |-> "nocolli"], [t |-> "miss"]}
    \cup [t : {"hit"}, colli : Collis]

\* Python truthiness of a dictionary: it is not empty
TruthyRoute(ri) ==
    /\ ri.t = "dict"
    /\ \/ ri.plannedDeliveryTime # ABSENT
       \/ ri.plannedDeliveryTimeWindow.t # "absent"
       \/ ri.expectedDeliveryTime # ABSENT

TruthyColli(colli) ==
    /\ colli.t = "dict"
    /\ \/ colli.statusPhase.t # "absent"
       \/ colli.routeInformation.t # "absent"
       \/ colli.other

-----------------------------------------------------------------------------
(* transform_shipment                                                      *)

Raise(exc) == [kind |-> "raise", exc |-> exc]
Return(pkg) == [kind |-> "Package", pkg |-> pkg]

\* The Package constructor's defaults for the optional fields
PackageDefaults ==
    [planned_date |-> None, planned_from |-> None, planned_to |-> None,
     expected_datetime |-> None]

IsDeliveredNever(shipment) == FALSE

\* coordinator.py:70
IsDelivered(shipment) == shipment.delivered

\* coordinator.py:73-82
DeliveredPackage(shipment) ==
    [key |-> shipment.key,
     status_message |-> "Pakket is bezorgd",
     delivered |-> shipment.delivered,
     planned_date |-> PackageDefaults.planned_date,
     planned_from |-> PackageDefaults.planned_from,
     planned_to |-> PackageDefaults.planned_to,
     expected_datetime |-> PackageDefaults.expected_datetime]

\* coordinator.py:87-92
LookupColli(details) ==
    IF details.t \in {"none", "nocolli"} THEN NoColli
    ELSE IF details.t = "miss" THEN NoColli
    ELSE details.colli

\* coordinator.py:104-107 and 113-116
FallbackWindow(shipment) ==
    [planned_date |-> Get(shipment.deliveryWindowFrom),
     planned_from |-> Get(shipment.deliveryWindowFrom),
     planned_to |-> Get(shipment.deliveryWindowTo),
     expected_datetime |-> None]

\* route_information.get("plannedDeliveryTimeWindow", {}).get(field, None)
WindowRaises(w) == w.t = "null"
WindowGet(w, field) == IF w.t = "absent" THEN None ELSE Get(w[field])

RouteWindowSwapped(ri) ==
    [planned_date |-> Get(ri.plannedDeliveryTime),
     planned_from |-> WindowGet(ri.plannedDeliveryTimeWindow, "endDateTime"),
     planned_to |-> WindowGet(ri.plannedDeliveryTimeWindow, "startDateTime"),
     expected_datetime |-> Get(ri.expectedDeliveryTime)]

\* coordinator.py:98-101
RouteWindow(ri) ==
    [planned_date |-> Get(ri.plannedDeliveryTime),
     planned_from |-> WindowGet(ri.plannedDeliveryTimeWindow, "startDateTime"),
     planned_to |-> WindowGet(ri.plannedDeliveryTimeWindow, "endDateTime"),
     expected_datetime |-> Get(ri.expectedDeliveryTime)]

\* coordinator.py:109-110: the local status_message (never passed on)
LocalStatusMessage(colli) ==
    IF colli.statusPhase.t = "dict"
    THEN (IF colli.statusPhase.message = ABSENT THEN "Unknown"
          ELSE colli.statusPhase.message)
    ELSE "Unknown"

\* coordinator.py:124: colli.get('statusPhase', {}).get('message', "Unknown")
\* raises AttributeError when colli is None, and when statusPhase is there
\* and is not a mapping
StatusRaises(colli) ==
    \/ colli.t = "none"
    \/ colli.statusPhase.t \in {"null", "str"}

StatusArgument(colli) ==
    IF colli.statusPhase.t = "absent" THEN "Unknown"
    ELSE IF colli.statusPhase.message = ABSENT THEN "Unknown"
    ELSE colli.statusPhase.message

\* coordinator.py:94-132, after the lookup
Reconcile(shipment, colli) ==
    LET useRoute == TruthyColli(colli) /\ TruthyRoute(colli.routeInformation)
    IN  IF useRoute /\ WindowRaises(colli.routeInformation.plannedDeliveryTimeWindow)
        THEN Raise("AttributeError")
        ELSE IF StatusRaises(colli) THEN Raise("AttributeError")
        ELSE LET w == IF useRoute THEN RouteWindow(colli.routeInformation)
                      ELSE FallbackWindow(shipment)
             IN  Return([key |-> shipment.key,
                         status_message |-> StatusArgument(colli),
                         delivered |-> shipment.delivered,
                         planned_date |-> w.planned_date,
                         planned_from |-> w.planned_from,
                         planned_to |-> w.planned_to,
                         expected_datetime |-> w.expected_datetime])

\* coordinator.py:66-135: the outcome, and how many lookups were made
transform_shipment(shipment, details) ==
    IF IsDelivered(shipment)
    THEN [out |-> Return(DeliveredPackage(shipment)), lookups |-> 0]
    ELSE IF details.t = "RequestException"
    THEN [out |-> Raise("UpdateFailed"), lookups |-> 1]
    ELSE [out |-> Reconcile(shipment, LookupColli(details)), lookups |-> 1]

NotCalled == [kind |-> "none"]

-----------------------------------------------------------------------------
(* Token check: AsyncConfigEntryAuth.check_and_refresh_token               *)

\* how the token validation and the profile probe can end:
\*   ClientResponseError400 / ClientResponseError : aiohttp, with a status
\*   ClientConnectionError : an aiohttp ClientError that has no status
\*   TransportQueryError+ok / +ClientError : the GraphQL probe is refused and
\*       the forced refresh then succeeds / fails
\*   ConnectionError / Timeout : requests exceptions of the profile probe
TokenOutcomes ==
    {"ok", "ClientResponseError400", "ClientResponseError", "ClientConnectionError",
     "TransportQueryError+ok", "TransportQueryError+ClientError",
     "ConnectionError", "Timeout"}

\* __init__.py:118-140: what the call raises ("none": it returns), and
\* whether it started a reauth flow
check_and_refresh_token(outcome) ==
    CASE outcome = "ok" -> [raised |-> "none", reauth |-> FALSE]
      [] outcome = "ClientResponseError400" ->
            [raised |-> "HomeAssistantError", reauth |-> TRUE]
      [] outcome = "ClientResponseError" ->
            [raised |-> "HomeAssistantError", reauth |-> FALSE]
      [] outcome = "ClientConnectionError" ->
            [raised |-> "AttributeError", reauth |-> FALSE]
      [] outcome = "TransportQueryError+ok" -> [raised |-> "none", reauth |-> FALSE]
      [] outcome = "TransportQueryError+ClientError" ->
            [raised |-> "ClientError", reauth |-> FALSE]
      [] outcome = "ConnectionError" -> [raised |-> "ConnectionError", reauth |-> FALSE]
      [] outcome = "Timeout" -> [raised |-> "Timeout", reauth |-> FALSE]

\* the exceptions that are requests.exceptions.RequestException
IsRequestException(exc) == exc \in {"ConnectionError", "Timeout", "RequestException"}

-----------------------------------------------------------------------------
(* One call of transform_shipment on every input                           *)

TransformInit ==
    /\ tShipment \in ShipmentRecords
    /\ tDetails \in Details
    /\ tOutcome = NotCalled
    /\ tLookups = 0

CallTransform ==
    /\ UNCHANGED <<pvars, svars>>
    /\ tOutcome = NotCalled
    /\ LET r == transform_shipment(tShipment, tDetails)
       IN  /\ tOutcome' = r.out
           /\ tLookups' = tLookups + r.lookups
    /\ UNCHANGED <<tShipment, tDetails>>

-----------------------------------------------------------------------------
(* The polling cycle: _async_update_data under the host's coordinator      *)

MaxShipments == 2

\* the shipments the shipment-list call reports in the polling model
ShipmentDelivered ==
    [key |-> "k1", barcode |-> "3S1", delivered |-> TRUE,
     deliveryWindowFrom |-> "f1", deliveryWindowTo |-> "t1"]
ShipmentEnroute ==
    [key |-> "k2", barcode |-> "3S1", delivered |-> FALSE,
     deliveryWindowFrom |-> "f1", deliveryWindowTo |-> "t1"]
PolledShipments == {ShipmentDelivered, ShipmentEnroute}

SeqsUpTo(S, n) == UNION {[1..k -> S] : k \in 0..n}

\* graphq_api.shipments(): the call raises, or answers without
\* 'trackedShipments', or answers with the two lists (MaxShipments
\* shipments at most in one answer)
ShipmentResponses ==
    {[t |-> "RequestException"], [t |-> "notracked"]}
    \cup {resp \in
            {[t |-> "tracked", receiverShipments |-> r, senderShipments |-> s] :
                r \in SeqsUpTo(PolledShipments, MaxShipments),
                s \in SeqsUpTo(PolledShipments, MaxShipments)} :
            Len(resp.receiverShipments) + Len(resp.senderShipments) <= MaxShipments}

\* the track-and-trace answers in the polling model
PolledColli ==
    [t |-> "dict", statusPhase |-> [t |-> "dict", message |-> "m1"],
     routeInformation |-> [t |-> "absent"], other |-> TRUE]
PolledDetails ==
    {[t |-> "RequestException"], [t |-> "none"], [t |-> "hit", colli |-> PolledColli]}

\* coordinator.py:50-51 and 55-56: .get('trackedShipments', {}).get(r, [])
ShipmentList(resp, r) ==
    IF resp.t = "tracked"
    THEN (IF r = "receiver" THEN resp.receiverShipments ELSE resp.senderShipments)
    ELSE <<>>

NoData == [set |-> FALSE, receiver |-> <<>>, sender |-> <<>>]

\* coordinator.py:42-45
NewData == [set |-> TRUE, receiver |-> <<>>, sender |-> <<>>]

StoreGatherReversed(d, r, res) ==
    LET n == Len(res)
        rev == [i \in 1..n |-> res[n + 1 - i]]
    IN  IF r = "receiver" THEN [d EXCEPT !.receiver = rev]
        ELSE [d EXCEPT !.sender = rev]

\* coordinator.py:52 and 57: data[r] = await asyncio.gather(...)
StoreGather(d, r, res) ==
    IF r = "receiver" THEN [d EXCEPT !.receiver = res]
    ELSE [d EXCEPT !.sender = res]

RECURSIVE SortPackages(_, _, _)
\* sensor.py:122-126: the loop over the packages of the list
SortPackages(list, i, attrs) ==
    IF i > Len(list) THEN attrs
    ELSE IF list[i].delivered
    THEN SortPackages(list, i + 1,
                      [attrs EXCEPT !.delivered = Append(@, list[i])])
    ELSE SortPackages(list, i + 1,
                      [attrs EXCEPT !.enroute = Append(@, list[i])])

handle_coordinator_data_keep(sensor, d) ==
    LET list == IF sensor.receiver THEN d.receiver ELSE d.sender
        attrs == SortPackages(list, 1, [enroute |-> sensor.enroute,
                                        delivered |-> sensor.delivered])
    IN  [sensor EXCEPT !.enroute = attrs.enroute,
                       !.delivered = attrs.delivered,
                       !.state = Len(attrs.enroute)]

\* sensor.py:113-128
handle_coordinator_data(sensor, d) ==
    LET list == IF sensor.receiver THEN d.receiver ELSE d.sender
        attrs == SortPackages(list, 1, [enroute |-> <<>>, delivered |-> <<>>])
    IN  [sensor EXCEPT !.enroute = attrs.enroute,
                       !.delivered = attrs.delivered,
                       !.state = Len(attrs.enroute)]

\* sensor.py:50-62: PostNLDelivery.__init__
NewSensor(receiver, d) ==
    handle_coordinator_data(
        [receiver |-> receiver, state |-> 0, enroute |-> <<>>, delivered |-> <<>>], d)

NoSensors == [exists |-> FALSE]

\* sensor.py:25-46: the two entities, or none without user info
AddEntities(info, d) ==
    IF info = "empty" THEN NoSensors
    ELSE [exists |-> TRUE, delivery |-> NewSensor(TRUE, d),
          distribution |-> NewSensor(FALSE, d)]

\* sensor.py:105-111: _handle_coordinator_update of each listening entity
UpdateListeners(s, d) ==
    IF s.exists
    THEN [s EXCEPT !.delivery = handle_coordinator_data(@, d),
                   !.distribution = handle_coordinator_data(@, d)]
    ELSE s

FailedDataPartial(published, partial) == partial

\* coordinator.py:63-64 and 133-135: a failed refresh returns nothing, and
\* the coordinator keeps the data it had
FailedData(published, partial) == published

PollInit ==
    /\ pc = "idle"
    /\ first = FALSE
    /\ coordinator = FALSE
    /\ userinfo \in {"empty", "account"}
    /\ shipments = [t |-> "notracked"]
    /\ cycleData = NoData
    /\ role = "receiver"
    /\ pending = {}
    /\ results = <<>>
    /\ data = NoData
    /\ last_update_success = TRUE
    /\ last_exception = "none"
    /\ sensors = NoSensors
    /\ api = "none"

\* the refresh ends with exception exc: the first refresh raises
\* ConfigEntryNotReady out of the platform setup and the coordinator is
\* dropped; a later one notifies the listeners, with the data kept
RefreshFailed(exc) ==
    /\ pc' = "idle"
    /\ last_update_success' = FALSE
    /\ last_exception' = exc
    /\ data' = FailedData(data, cycleData)
    /\ coordinator' = ~first
    /\ sensors' = UpdateListeners(sensors, data')
    /\ UNCHANGED <<first, userinfo, shipments, cycleData, role, pending, results>>

\* sensor.py:22-23: build the coordinator and start the first refresh
SensorSetupEntry ==
    /\ UNCHANGED <<tvars, svars>>
    /\ ~coordinator
    /\ pc = "idle"
    /\ coordinator' = TRUE
    /\ first' = TRUE
    /\ pc' = "token"
    /\ last_update_success' = TRUE
    /\ last_exception' = "none"
    /\ api' = "none"
    /\ UNCHANGED <<userinfo, shipments, cycleData, role, pending, results, data,
                   sensors>>

\* the host's scheduler starts a refresh while entities listen
ScheduledRefresh ==
    /\ UNCHANGED <<tvars, svars>>
    /\ coordinator
    /\ sensors.exists
    /\ pc = "idle"
    /\ first' = FALSE
    /\ pc' = "token"
    /\ api' = "none"
    /\ UNCHANGED <<coordinator, userinfo, shipments, cycleData, role, pending,
                   results, data, last_update_success, last_exception, sensors>>

\* coordinator.py:35-45: auth.check_and_refresh_token()
CheckToken ==
    /\ UNCHANGED <<tvars, svars>>
    /\ pc = "token"
    /\ \E outcome \in TokenOutcomes :
         LET r == check_and_refresh_token(outcome)
         IN
         /\ api' = IF r.raised = "none" THEN "ok"
                   ELSE IF IsRequestException(r.raised) THEN "RequestException"
                   ELSE "ClientError"
         /\ IF r.raised = "none"
            THEN /\ pc' = "shipments"
                 /\ cycleData' = NewData
                 /\ UNCHANGED <<first, coordinator, userinfo, shipments, role,
                                pending, results, data, last_update_success,
                                last_exception, sensors>>
            ELSE RefreshFailed(IF IsRequestException(r.raised)
                               THEN "UpdateFailed" ELSE r.raised)

\* coordinator.py:48-52: graphq_api.shipments(), then the receiver gather
FetchShipments ==
    /\ UNCHANGED <<tvars, svars>>
    /\ pc = "shipments"
    /\ \E resp \in ShipmentResponses :
         IF resp.t = "RequestException"
         THEN /\ api' = "RequestException"
              /\ RefreshFailed("UpdateFailed")
         ELSE /\ api' = "ok"
              /\ shipments' = resp
              /\ role' = "receiver"
              /\ pending' = 1..Len(ShipmentList(resp, "receiver"))
              /\ results' = [i \in 1..Len(ShipmentList(resp, "receiver")) |-> NotCalled]
              /\ pc' = "gather"
              /\ UNCHANGED <<first, coordinator, userinfo, cycleData, data,
                             last_update_success, last_exception, sensors>>

\* coordinator.py:50-57: one task of the running gather ends
TransformTask ==
    /\ UNCHANGED <<tvars, svars>>
    /\ pc = "gather"
    /\ \E i \in pending, details \in PolledDetails :
         LET r == transform_shipment(ShipmentList(shipments, role)[i], details)
         IN  /\ api' = IF r.lookups = 0 THEN "none"
                       ELSE IF details.t = "RequestException"
                       THEN "RequestException" ELSE "ok"
             /\ IF r.out.kind = "raise"
                THEN RefreshFailed(r.out.exc)
                ELSE /\ results' = [results EXCEPT ![i] = r.out.pkg]
                     /\ pending' = pending \ {i}
                     /\ UNCHANGED <<pc, first, coordinator, userinfo, shipments,
                                    cycleData, role, data, last_update_success,
                                    last_exception, sensors>>

\* coordinator.py:52-56: the receiver gather is complete, start the
\* sender gather
ReceiverGathered ==
    /\ UNCHANGED <<tvars, svars>>
    /\ pc = "gather"
    /\ role = "receiver"
    /\ pending = {}
    /\ cycleData' = StoreGather(cycleData, "receiver", results)
    /\ role' = "sender"
    /\ pending' = 1..Len(ShipmentList(shipments, "sender"))
    /\ results' = [i \in 1..Len(ShipmentList(shipments, "sender")) |-> NotCalled]
    /\ api' = "none"
    /\ UNCHANGED <<pc, first, coordinator, userinfo, shipments, data,
                   last_update_success, last_exception, sensors>>

\* coordinator.py:57-62: the sender gather is complete and data is returned;
\* the coordinator publishes it and the entities are built (first refresh,
\* sensor.py:25-46) or updated (sensor.py:105-111)
SenderGathered ==
    /\ UNCHANGED <<tvars, svars>>
    /\ pc = "gather"
    /\ role = "sender"
    /\ pending = {}
    /\ cycleData' = StoreGather(cycleData, "sender", results)
    /\ data' = cycleData'
    /\ last_update_success' = TRUE
    /\ last_exception' = "none"
    /\ sensors' = IF first THEN AddEntities(userinfo, data')
                  ELSE UpdateListeners(sensors, data')
    /\ pc' = "idle"
    /\ api' = "none"
    /\ UNCHANGED <<first, coordinator, userinfo, shipments, role, pending, results>>


-----------------------------------------------------------------------------
(* Options flow                                                            *)

MinInterval == 30
DefaultInterval == 90
CoordinatorInterval == 90

NoOptions == [has |-> FALSE, update_interval |-> 0]

\* what a user can submit for update_interval: nothing, None, a string that
\* is no number, an integer, a string of digits, or a float (in tenths)
IntInputs == {-5, 0, 29, 30, 31, 45}
TenthInputs == {-5, 299, 300, 305}
SubmittedInputs ==
    {[kind |-> "absent"], [kind |-> "none"], [kind |-> "badstr"]}
    \cup [kind : {"int", "numstr"}, v : IntInputs]
    \cup [kind : {"float"}, tenths : TenthInputs]
NoInput == [kind |-> "nothing"]

\* int(x) of a float given in tenths: truncation toward zero
Trunc(tenths) == IF tenths >= 0 THEN tenths \div 10 ELSE -((-tenths) \div 10)

\* options_flow.py:21: vol.Coerce(int)
CoerceInt(input) ==
    CASE input.kind \in {"int", "numstr"} -> [ok |-> TRUE, v |-> input.v]
      [] input.kind = "float" -> [ok |-> TRUE, v |-> Trunc(input.tenths)]
      [] OTHER -> [ok |-> FALSE, v |-> 0]

RangeAny(v) == TRUE

\* options_flow.py:21: vol.Range(min=30)
RangeMin(v) == v >= MinInterval

\* options_flow.py:20-22: the schema applied to a submitted input; a missing
\* key takes the form's default, which is validated like a given value
options_schema(default, input) ==
    LET c == IF input.kind = "absent" THEN [ok |-> TRUE, v |-> default]
             ELSE CoerceInt(input)
    IN  IF c.ok /\ RangeMin(c.v)
        THEN [ok |-> TRUE, data |-> [has |-> TRUE, update_interval |-> c.v]]
        ELSE [ok |-> FALSE, data |-> NoOptions]

\* options_flow.py:12-24
async_step_init(user_input, opts) ==
    IF user_input.has
    THEN [type |-> "create_entry", data |-> user_input]
    ELSE [type |-> "form",
          default |-> IF opts.has THEN opts.update_interval ELSE DefaultInterval]

NoFlow == [step |-> "none", default |-> 0, errors |-> FALSE, submitted |-> NoInput]

\* the user opens the options: async_step_init(None) shows the form
OptionsFlowInit ==
    /\ UNCHANGED <<tvars, pvars>>
    /\ flow.step = "none"
    /\ LET r == async_step_init(NoOptions, options)
       IN  flow' = [step |-> "form", default |-> r.default, errors |-> FALSE,
                    submitted |-> NoInput]
    /\ UNCHANGED <<options, entryState, hassData, forwarded, setupCause,
                   setupRaised, reauth, polling>>

\* the user submits the form: the host validates the input against the
\* form's schema and, when it is valid, hands it to async_step_init
OptionsFlowSubmit ==
    /\ UNCHANGED <<tvars, pvars>>
    /\ flow.step = "form"
    /\ \E input \in SubmittedInputs :
         LET checked == options_schema(flow.default, input)
         IN  IF checked.ok
             THEN LET r == async_step_init(checked.data, options)
                  IN  /\ options' = r.data
                      /\ flow' = [NoFlow EXCEPT !.submitted = input]
             ELSE /\ flow' = [flow EXCEPT !.errors = TRUE, !.submitted = input]
                  /\ UNCHANGED options
    /\ UNCHANGED <<entryState, hassData, forwarded, setupCause, setupRaised,
                   reauth, polling>>

-----------------------------------------------------------------------------
(* Config-entry setup                                                      *)

\* postnl_login_api.userinfo(): user info, an empty answer, an answer with
\* an "error" field, or an exception
UserinfoOutcomes == {"account", "empty", "error", "RequestException", "MaxRetryError"}

NoHassData == [auth |-> FALSE, userinfo |-> "none"]
NoCoordinator == [exists |-> FALSE, update_interval |-> 0]

\* coordinator.py:23-30: PostNLCoordinator.__init__
NewCoordinator(opts) == [exists |-> TRUE, update_interval |-> CoordinatorInterval]

\* __init__.py:23-82: what the call raises, what it leaves in hass.data and
\* whether it forwards the platforms
async_setup_entry(token, info) ==
    LET t == check_and_refresh_token(token)
    IN  IF t.raised = "ConnectionError"
        THEN [raised |-> "ConfigEntryNotReady", cause |-> token,
              hassData |-> NoHassData, forwarded |-> FALSE, reauth |-> t.reauth]
        ELSE IF t.raised # "none"
        THEN [raised |-> t.raised, cause |-> token,
              hassData |-> NoHassData, forwarded |-> FALSE, reauth |-> t.reauth]
        ELSE IF info \in {"RequestException", "MaxRetryError", "error"}
        THEN [raised |-> "ConfigEntryNotReady", cause |-> info,
              hassData |-> [auth |-> TRUE, userinfo |-> "none"],
              forwarded |-> FALSE, reauth |-> FALSE]
        ELSE [raised |-> "none", cause |-> "none",
              hassData |-> [auth |-> TRUE, userinfo |-> info],
              forwarded |-> TRUE, reauth |-> FALSE]

SetupInit ==
    /\ options = NoOptions
    /\ flow = NoFlow
    /\ entryState = "not_loaded"
    /\ hassData = NoHassData
    /\ forwarded = FALSE
    /\ setupCause = "none"
    /\ setupRaised = "none"
    /\ reauth = FALSE
    /\ polling = NoCoordinator

\* the host sets the entry up, the first time or as a retry
SetupEntry ==
    /\ UNCHANGED <<tvars, pvars>>
    /\ entryState # "loaded"
    /\ \E token \in TokenOutcomes, info \in UserinfoOutcomes :
         LET r == async_setup_entry(token, info)
         IN  /\ setupRaised' = r.raised
             /\ setupCause' = r.cause
             /\ hassData' = IF r.hassData.auth THEN r.hassData ELSE hassData
             /\ forwarded' = r.forwarded
             /\ reauth' = (reauth \/ r.reauth)
             /\ entryState' = IF r.raised = "none" THEN "loaded"
                              ELSE IF r.raised = "ConfigEntryNotReady"
                              THEN "setup_retry" ELSE "setup_error"
    /\ UNCHANGED <<options, flow, polling>>

\* sensor.py:22: the forwarded sensor platform builds its coordinator
BuildCoordinator ==
    /\ UNCHANGED <<tvars, pvars>>
    /\ forwarded
    /\ ~polling.exists
    /\ polling' = NewCoordinator(options)
    /\ UNCHANGED <<options, flow, entryState, hassData, forwarded, setupCause,
                   setupRaised, reauth>>

\* __init__.py:85-96: async_unload_entry
UnloadEntry ==
    /\ UNCHANGED <<tvars, pvars>>
    /\ entryState = "loaded"
    /\ \E unload_ok \in BOOLEAN :
         IF unload_ok
         THEN /\ hassData' = NoHassData
              /\ forwarded' = FALSE
              /\ polling' = NoCoordinator
              /\ entryState' = "not_loaded"
         ELSE UNCHANGED <<hassData, forwarded, polling, entryState>>
    /\ UNCHANGED <<options, flow, setupCause, setupRaised, reauth>>

-----------------------------------------------------------------------------
(* Specifications                                                          *)

TransformFrozen ==
    /\ tShipment = ShipmentEnroute
    /\ tDetails = [t |-> "none"]
    /\ tOutcome = NotCalled
    /\ tLookups = 0

PollFrozen ==
    /\ PollInit
    /\ userinfo = "account"

\* the polling cycle and the sensors
Init == TransformFrozen /\ PollInit /\ SetupInit
Next ==
    \/ SensorSetupEntry
    \/ ScheduledRefresh
    \/ CheckToken
    \/ FetchShipments
    \/ TransformTask
    \/ ReceiverGathered
    \/ SenderGathered
Spec == Init /\ [][Next]_vars

\* transform_shipment, one call per input
InitTransform == TransformInit /\ PollFrozen /\ SetupInit
NextTransform == CallTransform
SpecTransform == InitTransform /\ [][NextTransform]_vars

\* setup, unload and the options flow
InitSetup == TransformFrozen /\ PollFrozen /\ SetupInit
NextSetup ==
    \/ OptionsFlowInit
    \/ OptionsFlowSubmit
    \/ SetupEntry
    \/ BuildCoordinator
    \/ UnloadEntry
SpecSetup == InitSetup /\ [][NextSetup]_vars

-----------------------------------------------------------------------------
(* Properties of transform_shipment (checked under SpecTransform)          *)

Called == tOutcome # NotCalled
ReturnedPackage == Called /\ tOutcome.kind = "Package"

\* C1: a non-delivered shipment whose track-and-trace answer holds no colli
\* for its barcode (empty answer, no 'colli' key, barcode not in colli)
\* yields a Package with status_message "Unknown", planned_date and
\* planned_from equal to deliveryWindowFrom, planned_to equal to
\* deliveryWindowTo and expected_datetime unset; the call does not fail.
C1_NoColliGivesUnknown ==
    (Called /\ ~tShipment.delivered /\ tDetails.t \in {"none", "nocolli", "miss"})
    => /\ tOutcome.kind = "Package"
       /\ tOutcome.pkg.status_message = "Unknown"
       /\ tOutcome.pkg.planned_date = Get(tShipment.deliveryWindowFrom)
       /\ tOutcome.pkg.planned_from = Get(tShipment.deliveryWindowFrom)
       /\ tOutcome.pkg.planned_to = Get(tShipment.deliveryWindowTo)
       /\ tOutcome.pkg.expected_datetime = None

\* C2: a delivered shipment never triggers the track-and-trace lookup and
\* yields a Package with delivered true, the fixed message "Pakket is
\* bezorgd" and planned_date, planned_from, planned_to and expected_datetime
\* unset, whatever the lookup would have answered.
C2_DeliveredSkipsLookup ==
    (Called /\ tShipment.delivered)
    => /\ tLookups = 0
       /\ tOutcome.kind = "Package"
       /\ tOutcome.pkg.delivered = TRUE
       /\ tOutcome.pkg.status_message = "Pakket is bezorgd"
       /\ tOutcome.pkg.planned_date = None
       /\ tOutcome.pkg.planned_from = None
       /\ tOutcome.pkg.planned_to = None
       /\ tOutcome.pkg.expected_datetime = None

\* a delivered shipment with a delivery window, and a lookup that would
\* have answered with a colli, has been transformed
C2_Witness ==
    /\ Called
    /\ tShipment.delivered
    /\ tShipment.deliveryWindowFrom = "f1"
    /\ tDetails.t = "hit"
    /\ TruthyRoute(tDetails.colli.routeInformation)

\* C3: for a non-delivered shipment whose colli is found, status_message is
\* the statusPhase message when statusPhase is a mapping with a "message"
\* key and "Unknown" otherwise (statusPhase missing, null, not a mapping, or
\* without "message"); no such input makes the call fail.
C3_StatusPhaseMessage ==
    (Called /\ ~tShipment.delivered /\ tDetails.t = "hit")
    => /\ tOutcome.kind = "Package"
       /\ LET sp == tDetails.colli.statusPhase
          IN  tOutcome.pkg.status_message =
                 IF sp.t = "dict" /\ sp.message # ABSENT THEN sp.message
                 ELSE "Unknown"

-----------------------------------------------------------------------------
(* Properties of the polling cycle and the sensors (checked under Spec)    *)

Occurrences(list, p) == Cardinality({i \in 1..Len(list) : list[i] = p})
Elements(list) == {list[i] : i \in 1..Len(list)}

SensorMatches(sensor, list) ==
    /\ sensor.state = Cardinality({i \in 1..Len(list) : ~list[i].delivered})
    /\ \A p \in Elements(list) \cup Elements(sensor.enroute)
                               \cup Elements(sensor.delivered) :
          Occurrences(sensor.enroute, p) + Occurrences(sensor.delivered, p)
             = Occurrences(list, p)

\* C4: after any sequence of successful and failed polling cycles, each
\* sensor's state is the number of Packages with delivered false in its own
\* list of the published data (receiver list for the delivery sensor, sender
\* list for the distribution sensor), and its enroute and delivered
\* attributes together hold every Package of that list exactly once.
C4_SensorCountsEnroute ==
    sensors.exists
    => /\ SensorMatches(sensors.delivery, data.receiver)
       /\ SensorMatches(sensors.distribution, data.sender)

\* the sensors show one package en route and one delivered after a
\* successful cycle followed by a failed one
C4_Witness ==
    /\ sensors.exists
    /\ pc = "idle"
    /\ ~first
    /\ ~last_update_success
    /\ sensors.delivery.state = 1
    /\ Len(sensors.delivery.delivered) = 1

\* C5: after a successfully completed polling cycle the published data is
\* built from that cycle's shipment-list answer only: the receiver and the
\* sender list hold one Package per shipment of the answer's list, in the
\* same order and with the same key, and nothing of an earlier cycle.
C5_PublishedFromThisCycle ==
    (pc = "idle" /\ last_update_success /\ data.set)
    => \A r \in {"receiver", "sender"} :
          LET list == ShipmentList(shipments, r)
              pkgs == IF r = "receiver" THEN data.receiver ELSE data.sender
          IN  /\ Len(pkgs) = Len(list)
              /\ \A i \in 1..Len(list) : pkgs[i].key = list[i].key

\* a later cycle has published two receiver Packages with different keys
C5_Witness ==
    /\ pc = "idle"
    /\ ~first
    /\ last_update_success
    /\ Len(data.receiver) = 2
    /\ data.receiver[1].key # data.receiver[2].key

\* C6: a network error in the token check, the shipment-list call or one
\* shipment's detail fetch ends the cycle as a failed update in which the
\* published data and the sensors are left exactly as they were; the
\* published data changes only when a cycle completes successfully.
C6_FailedCycleKeepsData ==
    [][/\ (pc # "idle" /\ api' \notin {"ok", "none"})
          => /\ pc' = "idle"
             /\ ~last_update_success'
             /\ data' = data
             /\ sensors' = sensors
       /\ (data' # data)
          => /\ pc' = "idle"
             /\ last_update_success'
             /\ role = "sender" /\ pending = {}]_vars

\* a detail fetch failed in a later cycle after the cycle had gathered
\* receiver Packages that differ from the published ones
C6_Witness ==
    /\ pc = "idle"
    /\ ~first
    /\ ~last_update_success
    /\ last_exception = "UpdateFailed"
    /\ api = "RequestException"
    /\ sensors.exists
    /\ role = "sender"
    /\ Len(cycleData.receiver) > 0
    /\ cycleData.receiver # data.receiver

-----------------------------------------------------------------------------
(* Properties of setup and options (checked under SpecSetup)               *)

\* C7: the coordinator's polling interval is the entry's update_interval
\* option when one is set, 90 seconds when none is set, and never below 30
\* seconds, after any sequence of option changes and setups.
C7_IntervalFollowsOptions ==
    [][(~polling.exists /\ polling'.exists)
       => /\ polling'.update_interval =
                IF options.has THEN options.update_interval ELSE DefaultInterval
          /\ polling'.update_interval >= MinInterval]_vars

\* C8: the options flow rejects update-interval values below 30: an entry
\* is created only from an input whose update_interval is an integer of at
\* least 30, so the stored options never hold a smaller value.
C8_OptionsAtLeastMin ==
    /\ options.has => options.update_interval >= MinInterval
    /\ (flow.submitted.kind \in {"int", "numstr"} /\ flow.submitted.v < MinInterval)
       => flow.step = "form" /\ flow.errors
    /\ (flow.submitted.kind = "float" /\ flow.submitted.tenths < 10 * MinInterval)
       => flow.step = "form" /\ flow.errors
    /\ flow.submitted.kind \in {"none", "badstr"}
       => flow.step = "form" /\ flow.errors

\* an interval was stored earlier and a submitted 29 has just been refused
C8_Witness ==
    /\ options.has
    /\ flow.step = "form"
    /\ flow.errors
    /\ flow.submitted = [kind |-> "int", v |-> 29]

\* C9: every authentication or network failure during async_setup_entry
\* (token validation or refresh failing with a client or connection error,
\* the user-info request failing, user info carrying an "error" field) is
\* raised as ConfigEntryNotReady, and the platforms are not forwarded.
C9_SetupFailureNotReady ==
    setupCause # "none" => setupRaised = "ConfigEntryNotReady" /\ ~forwarded
=============================================================================
